---- MODULE Spec2Model ----
(***************************************************************************)
(* Model of the research agent of krisadi/deep_research_agent:             *)
(*   utils/research_agent.py   conduct_research, regenerate_report_from_   *)
(*                             sources, _perform_synthesis and its stages   *)
(*   utils/llm_handler.py      get_llm_response and the client singleton    *)
(*   utils/vector_store_handler.py  the session's FAISS index handler       *)
(*                                                                         *)
(* Strings whose content the code inspects (startswith / in) are modelled  *)
(* as sequences of tokens; a Python dict is a function whose domain is the *)
(* set of its keys; dicts are iterated in the fixed order KeyOrder.        *)
(***************************************************************************)
EXTENDS Integers, Sequences, FiniteSets, TLC

(* ------------------------------ bounds -------------------------------- *)
\* largest number of Evidence Records one category holds
MaxRecords == 2
\* largest number of chunks the index holds
MaxStore == 2

(* -------------------------- program constants ------------------------- *)
MAX_PDF_CHUNKS_TO_LLM == 5

SOURCE_PDF == "Indexed PDFs"
DDG_SOURCE_NAME == "DuckDuckGo Search"
ARXIV_SOURCE_NAME == "arXiv Papers"

\* AVAILABLE_SOURCES in registration order, for an environment that enables
\* the arXiv and the DuckDuckGo fetchers; the PDF source has no fetch function
AVAILABLE_SOURCES == <<SOURCE_PDF, DDG_SOURCE_NAME, ARXIV_SOURCE_NAME>>

FetchFunctionIsNone(source_name) == source_name = SOURCE_PDF

\* pubmed_fetcher.py defines no SOURCE_NAME, so evaluating
\* pubmed_fetcher.SOURCE_NAME raises AttributeError
PubmedHasSourceName == FALSE

\* the keys of a grouped-records map, in iteration order
KeyOrder == <<"pdf_sources", "web_sources", "arxiv__sources">>
Keys == {KeyOrder[i] : i \in 1..Len(KeyOrder)}

\* source_type.replace('_sources', '').replace('_', ' ').title()
SourceTypeName(source_type) ==
    CASE source_type = "pdf_sources" -> "Pdf"
      [] source_type = "web_sources" -> "Web"
      [] source_type = "arxiv__sources" -> "Arxiv "
      [] OTHER -> source_type

\* the key conduct_research files a provider's records under
SourceKey(source_name) ==
    IF source_name = DDG_SOURCE_NAME THEN "web_sources"
    ELSE IF source_name = ARXIV_SOURCE_NAME THEN "arxiv__sources"
    ELSE "other_sources"

(* ------------------------------ strings -------------------------------- *)
StartsWith(s, tok) == Len(s) > 0 /\ s[1] = tok
Contains(s, tok) == \E i \in 1..Len(s) : s[i] = tok

\* dict.get(key, default)
DictGet(d, key, default) == IF key \in DOMAIN d THEN d[key] ELSE default

RECURSIVE SumLens(_, _)
SumLens(d, ks) ==
    IF ks = {} THEN 0
    ELSE LET k == CHOOSE x \in ks : TRUE
         IN Len(d[k]) + SumLens(d, ks \ {k})

\* sum(len(sources) for sources in source_data.values())
TotalSources(sd) == SumLens(sd, DOMAIN sd)

NonEmptyKeys(sd) == {k \in DOMAIN sd : sd[k] # <<>>}

(* --------------------------- llm_handler.py ---------------------------- *)
\* outcomes of the first initialisation attempt
InitOutcomes == {"ok", "no_endpoint", "init_failed"}

\* outcomes of chat.completions.create and of reading the reply
ApiOutcomes == {"content", "mentions_lm", "starts_error", "empty", "conn_error"}

\* an initialisation that is attempted again after a failure
InitializeClient_Retries(client, outcome) ==
    IF client = "ok" THEN client
    ELSE IF outcome = "ok" THEN "ok" ELSE outcome

\* _initialize_azure_openai_client: a second attempt is never made
InitializeClient(client, outcome) ==
    IF client # "uninit" THEN client
    ELSE IF outcome = "ok" THEN "ok" ELSE outcome

ClientErrorText(client) ==
    IF client = "no_endpoint"
    THEN <<"Azure OpenAI", "endpoint (AZURE_OPENAI_ENDPOINT) is not set.">>
    ELSE <<"Failed to initialize", "Azure OpenAI", "client">>

\* the string get_llm_response returns, given the client after initialisation
LLMResponse(client, deployment, api) ==
    IF client # "ok"
    THEN <<"Error:", "Azure OpenAI", "client not available.">> \o ClientErrorText(client)
    ELSE IF ~deployment
    THEN <<"Error:", "Azure OpenAI", "deployment name (AZURE_OPENAI_DEPLOYMENT_NAME) is not set.">>
    ELSE CASE api = "content" -> <<"answer text">>
           [] api = "mentions_lm" -> <<"As a large", "Language Model", "I can help">>
           [] api = "starts_error" -> <<"Error:", "analysis of the word in the sources">>
           [] api = "empty" -> <<"LLM returned an empty response.">>
           [] api = "conn_error" -> <<"Azure OpenAI", "API Connection Error:", "e">>

\* the reply reports a failed call (a client error string, not model text)
IsClientFailure(client, deployment, api) ==
    client # "ok" \/ ~deployment \/ api = "conn_error"

(* --------------------------- research_agent.py ------------------------- *)
\* one Evidence Record of a category, the i-th the caller holds
RecordOf(key, i) ==
    IF key = "pdf_sources"
    THEN [title |-> <<"PDF:", "doc.pdf", "Paper", i>>, content |-> <<"chunk text", i>>,
          source |-> "doc.pdf", chunk_number |-> i, pdf_type |-> "Paper", page_number |-> 1]
    ELSE [title |-> <<key, "title", i>>, content |-> <<key, "content", i>>,
          url |-> IF i = 1 THEN <<key, "url", i>> ELSE <<>>, metadata |-> <<>>]

RecordList(key, n) == [i \in 1..n |-> RecordOf(key, i)]

\* what Stage A writes into its prompt for one record
PromptEntry(source) ==
    [title |-> DictGet(source, "title", <<"No title">>),
     content |-> DictGet(source, "content", <<"No content">>),
     url |-> DictGet(source, "url", <<>>)]

SummaryPrompt(q, source_type, sources) ==
    [stage |-> "A", query |-> q, name |-> SourceTypeName(source_type),
     entries |-> [i \in 1..Len(sources) |-> PromptEntry(sources[i])]]

ErrorSummary(source_type) == <<"Error summarizing", SourceTypeName(source_type), "sources.">>

\* the value Stage A stores for a category, from the reply to its call
StageASummary(source_type, summary_response) ==
    IF ~StartsWith(summary_response, "Error:")
    THEN summary_response
    ELSE ErrorSummary(source_type)

\* a Stage B prompt that names the categories and leaves their summaries out
SynthesisPrompt_NoSummaries(q, source_summaries) ==
    [stage |-> "B", query |-> q, name |-> "synthesis",
     entries |-> [k \in DOMAIN source_summaries |->
                    [name |-> SourceTypeName(k), summary |-> <<>>]]]

SynthesisPrompt(q, source_summaries) ==
    [stage |-> "B", query |-> q, name |-> "synthesis",
     entries |-> [k \in DOMAIN source_summaries |->
                    [name |-> SourceTypeName(k), summary |-> source_summaries[k]]]]

\* the value _create_final_synthesis returns, from the reply to its call
FinalSynthesis(synthesis_response) ==
    IF ~StartsWith(synthesis_response, "Error:")
    THEN synthesis_response
    ELSE <<"Error creating final synthesis:">> \o synthesis_response

\* llm_available of _perform_synthesis
LLMAvailable_PrefixOnly(llm_test_response) == ~StartsWith(llm_test_response, "Error:")
LLMAvailable(llm_test_response) ==
    ~(StartsWith(llm_test_response, "Error:")
      \/ Contains(llm_test_response, "Azure OpenAI")
      \/ Contains(llm_test_response, "Language Model"))

\* the keys of a dict in its iteration order
KeysInOrder(S) == SelectSeq(KeyOrder, LAMBDA k : k \in S)

\* a report is the sequence of the parts written into its text
Part(tag, key, val) == [tag |-> tag, key |-> key, val |-> val]

\* "No information was available to generate a report."
EmptyReportText == <<Part("message", "", "No information was available to generate a report.")>>

ErrorParts(errs) == [i \in 1..Len(errs) |-> Part("error", "", errs[i])]

\* the "Sources Analyzed" block: the total and one line per non-empty category
CountParts_TotalOnly(sd) == <<Part("total", "", TotalSources(sd))>>
CountParts(sd) ==
    LET counted == KeysInOrder(NonEmptyKeys(sd))
    IN <<Part("total", "", TotalSources(sd))>>
       \o [i \in 1..Len(counted) |->
             Part("count", SourceTypeName(counted[i]), Len(sd[counted[i]]))]

\* the "Individual Source Summaries" block
SummaryParts(source_summaries) ==
    LET summarized == KeysInOrder(DOMAIN source_summaries)
    IN [i \in 1..Len(summarized) |->
          Part("summary", SourceTypeName(summarized[i]), source_summaries[summarized[i]])]

CreateFinalReport_NoSummaries(q, final_synthesis, sd, source_summaries, errs) ==
    <<Part("heading", "", q), Part("note", "", "Multi-Stage AI Synthesis")>>
    \o (IF TotalSources(sd) > 0 THEN CountParts(sd) ELSE <<>>)
    \o (IF errs # <<>> THEN ErrorParts(errs) ELSE <<>>)
    \o <<Part("synthesis", "", final_synthesis)>>
CreateFinalReport(q, final_synthesis, sd, source_summaries, errs) ==
    <<Part("heading", "", q), Part("note", "", "Multi-Stage AI Synthesis")>>
    \o (IF TotalSources(sd) > 0 THEN CountParts(sd) ELSE <<>>)
    \o (IF DOMAIN source_summaries # {} THEN SummaryParts(source_summaries) ELSE <<>>)
    \o (IF errs # <<>> THEN ErrorParts(errs) ELSE <<>>)
    \o <<Part("synthesis", "", final_synthesis)>>

\* the report text of _create_raw_data_report: the notice, the errors and
\* the total; it holds no per-category line and no record
RawReportText_CountsKeys(q, sd, errs) ==
    <<Part("heading", "", q), Part("note", "", "LLM processing is not available")>>
    \o (IF errs # <<>> THEN ErrorParts(errs) ELSE <<>>)
    \o <<Part("total", "", Cardinality(DOMAIN sd))>>
RawReportText(q, sd, errs) ==
    <<Part("heading", "", q), Part("note", "", "LLM processing is not available")>>
    \o (IF errs # <<>> THEN ErrorParts(errs) ELSE <<>>)
    \o <<Part("total", "", TotalSources(sd))>>

CreateRawDataReport_NoData(q, sd, errs) ==
    [report |-> RawReportText(q, sd, errs), source_data |-> <<>>, is_raw_data |-> TRUE]
CreateRawDataReport(q, sd, errs) ==
    [report |-> RawReportText(q, sd, errs), source_data |-> sd, is_raw_data |-> TRUE]

(* ----------------------- vector_store_handler.py ----------------------- *)
Chunk(i) ==
    [page_content |-> <<"chunk text", i>>,
     metadata |-> [source |-> "doc.pdf", chunk_number |-> i, page_number |-> 1,
                   pdf_type |-> IF i % 2 = 1 THEN "Paper" ELSE "Report"]]

\* the chunks of one upload
Batch(n) == [i \in 1..n |-> Chunk(i)]

\* the chunks of a further upload: n chunks the store does not hold yet
NextBatch(store, n) == [i \in 1..n |-> Chunk(Len(store.docs) + i)]

\* self.vector_store: None, or a FAISS store with its docstore (docs, one
\* entry of index_to_docstore_id each) and the number of vectors in its index
NoStore == [exists |-> FALSE, docs |-> <<>>, vectors |-> 0]

\* how a FAISS call that embeds and inserts chunks may end: it succeeds, it
\* raises before it has changed anything, or it raises after the vectors
\* were added to the index and before the docstore was updated
FaissOutcomes == {"ok", "raises", "raises_midway"}

\* a build that keeps the prior index when it is given no documents
InitStoreFromDocuments_KeepsOnEmpty(store, documents, outcome) ==
    IF documents = <<>> THEN store
    ELSE IF outcome = "ok"
    THEN [exists |-> TRUE, docs |-> documents, vectors |-> Len(documents)]
    ELSE NoStore

\* FAISS.from_documents either builds the index or raises
InitStoreFromDocuments(store, documents, outcome) ==
    IF documents = <<>> THEN NoStore
    ELSE IF outcome = "ok"
    THEN [exists |-> TRUE, docs |-> documents, vectors |-> Len(documents)]
    ELSE NoStore

\* an append that replaces what the store held
AddDocumentsToStore_Replaces(store, documents, outcome) ==
    IF documents = <<>> THEN store
    ELSE IF ~store.exists THEN InitStoreFromDocuments(store, documents, outcome)
    ELSE IF outcome = "ok"
    THEN [exists |-> TRUE, docs |-> documents, vectors |-> Len(documents)]
    ELSE store

\* the exception of add_documents is caught and the store is left as it is
AddDocumentsToStore(store, documents, outcome) ==
    IF documents = <<>> THEN store
    ELSE IF ~store.exists THEN InitStoreFromDocuments(store, documents, outcome)
    ELSE IF outcome = "ok"
    THEN [exists |-> TRUE, docs |-> store.docs \o documents,
          vectors |-> store.vectors + Len(documents)]
    ELSE IF outcome = "raises_midway"
    THEN [store EXCEPT !.vectors = @ + Len(documents)]
    ELSE store

Reverse(s) == [i \in 1..Len(s) |-> s[Len(s) + 1 - i]]

FirstK(s, k) == IF k <= 0 THEN <<>> ELSE IF Len(s) <= k THEN s ELSE SubSeq(s, 1, k)

\* the lists similarity_search may return: the k nearest chunks, in an order
\* the embedding decides; for k <= 0 FAISS raises or finds nothing
SimilarityResults(store, k) == {FirstK(store.docs, k), FirstK(Reverse(store.docs), k)}

\* a search that does not test the query text
SearchRelevantChunks_NoQueryCheck(store, q, k, raises, found) ==
    IF ~store.exists THEN <<>>
    ELSE IF raises THEN <<>>
    ELSE found

\* search_relevant_chunks(query, k), given whether similarity_search raises
\* and the list it returns otherwise
SearchRelevantChunks(store, q, k, raises, found) ==
    IF ~store.exists THEN <<>>
    ELSE IF q = "" THEN <<>>
    ELSE IF raises THEN <<>>
    ELSE found

GetStoreStatus(store) ==
    IF ~store.exists THEN [status |-> "Not initialized", num_docs |-> 0]
    ELSE [status |-> "Initialized", num_docs |-> Len(store.docs)]

(* ------------------------------- state --------------------------------- *)
VARIABLES
    pc,                \* "idle", "called", "fetch", "synthesis", "stageA", "stageB",
                       \* "done" ("called": a handler method has returned, "done":
                       \* the run has returned result to its caller)
    mode,              \* "none", "research", "regenerate": the run in progress
    query,
    selected_data_sources,
    fetch_i,           \* position of the provider loop in AVAILABLE_SOURCES
    source_data,
    processing_errors,
    source_summaries,
    llm_calls,         \* the get_llm_response calls of this run, in order
    result,            \* the dict the run returned
    regen_input,       \* the map regenerate_report_from_sources was given
    type_filter,       \* the pdf_types argument the search of the indexed PDFs
                       \* of this run was given, until the provider loop starts
    progress,          \* the messages conduct_research has passed to _progress
    client,            \* "uninit", "ok", "no_endpoint", "init_failed"
    deployment,        \* AZURE_OPENAI_DEPLOYMENT_NAME is set
    vector_store,      \* [exists, docs, vectors]: exists = FALSE is Python's None
    index_queries,     \* search_relevant_chunks calls of this run
    fetch_calls,       \* provider fetch function calls of this run
    providers,         \* what each provider's fetch function does when called
                       \* in this run: it raises, or returns n dicts
    index_op,          \* the last call made on the VectorStoreHandler
    session            \* st.session_state of the Streamlit shell

vars == <<pc, mode, query, selected_data_sources, fetch_i, source_data,
          processing_errors, source_summaries, llm_calls, result, regen_input, type_filter, progress,
          client, deployment, vector_store, index_queries, fetch_calls,
          providers, index_op, session>>

runVars == <<query, selected_data_sources, fetch_i, source_data,
             processing_errors, source_summaries, llm_calls, result, regen_input,
             type_filter, progress>>

\* a call on the handler: its name, the number of chunks passed (or k), the
\* query text, how the FAISS call inside ended, the store before the call and
\* the value returned
IndexOp(op, n, q, outcome, before, out) ==
    [op |-> op, n |-> n, q |-> q, outcome |-> outcome, before |-> before, out |-> out]

\* no call on the handler has just returned
NoIndexOp == IndexOp("none", 0, "", "ok", NoStore, <<>>)

\* the providers that have a fetch function
Fetchable == {AVAILABLE_SOURCES[i] : i \in 1..Len(AVAILABLE_SOURCES)} \ {SOURCE_PDF}

\* a fetch function raises, returns an empty list, or returns a list of
\* MaxRecords dicts
ProviderOutcomes ==
    {[raises |-> TRUE, n |-> 0]} \cup {[raises |-> FALSE, n |-> m] : m \in {0, MaxRecords}}

NoProviders == <<>>

\* pdf_types = None
NoTypeFilter == [kind |-> "none", types |-> {}]

\* a message passed to _progress: what it says and the source it is about
Msg(kind, source_name) == [kind |-> kind, source |-> source_name]

\* st.session_state before the first login
NewSession ==
    [authenticated |-> FALSE, uploaded_pdfs |-> {}, processing |-> FALSE,
     results |-> <<>>, source_data |-> <<>>, is_raw_data |-> FALSE,
     filtered_sources |-> {}, pdf_vector_store |-> FALSE]

\* no dict has been returned yet
NoResult == [report |-> <<>>, source_data |-> <<>>, is_raw_data |-> FALSE]

Init ==
    /\ pc = "idle"
    /\ mode = "none"
    /\ query = ""
    /\ selected_data_sources = {}
    /\ fetch_i = 1
    /\ source_data = <<>>
    /\ processing_errors = <<>>
    /\ source_summaries = <<>>
    /\ llm_calls = <<>>
    /\ result = NoResult
    /\ regen_input = <<>>
    /\ type_filter = NoTypeFilter
    /\ progress = <<>>
    /\ client = "uninit"
    /\ deployment \in BOOLEAN
    /\ vector_store = NoStore
    /\ index_queries = 0
    /\ fetch_calls = 0
    /\ providers = NoProviders
    /\ index_op = NoIndexOp
    /\ session = NewSession

(* --------------------------- index maintenance ------------------------- *)
Idle == pc = "idle"

\* a call of init_store_from_documents by any caller of the handler
InitStore ==
    /\ Idle
    /\ \E n \in 0..MaxStore, outcome \in FaissOutcomes :
         /\ vector_store' = InitStoreFromDocuments(vector_store, Batch(n), outcome)
         /\ index_op' = IndexOp("init", n, "", outcome, vector_store, <<>>)
    /\ pc' = "called"
    /\ UNCHANGED <<mode, runVars, client, deployment, index_queries, fetch_calls,
                   providers, session>>

\* a call of add_documents_to_store
AddDocuments ==
    /\ Idle
    /\ \E n \in 0..MaxStore, outcome \in FaissOutcomes :
         /\ vector_store.vectors + n <= MaxStore
         /\ vector_store' = AddDocumentsToStore(vector_store, NextBatch(vector_store, n),
                                                outcome)
         /\ index_op' = IndexOp("add", n, "", outcome, vector_store, <<>>)
    /\ pc' = "called"
    /\ UNCHANGED <<mode, runVars, client, deployment, index_queries, fetch_calls,
                   providers, session>>

\* the values of k a caller passes
SearchKs == {-1, 0, 1, MAX_PDF_CHUNKS_TO_LLM}

\* a search that drops the index when similarity_search raises
SearchChunks_DropsIndex ==
    /\ Idle
    /\ \E q \in {"", "q"}, k \in SearchKs, raises \in BOOLEAN :
       \E found \in SimilarityResults(vector_store, k) :
         /\ index_op' = IndexOp("search", k, q, IF raises THEN "raises" ELSE "ok",
                                vector_store,
                                SearchRelevantChunks(vector_store, q, k, raises, found))
         /\ vector_store' = IF raises THEN NoStore ELSE vector_store
    /\ pc' = "called"
    /\ UNCHANGED <<mode, runVars, client, deployment, index_queries,
                   fetch_calls, providers, session>>

\* a call of search_relevant_chunks
SearchChunks ==
    /\ Idle
    /\ \E q \in {"", "q"}, k \in SearchKs, raises \in BOOLEAN :
       \E found \in SimilarityResults(vector_store, k) :
         index_op' = IndexOp("search", k, q, IF raises THEN "raises" ELSE "ok",
                             vector_store,
                             SearchRelevantChunks(vector_store, q, k, raises, found))
    /\ pc' = "called"
    /\ UNCHANGED <<mode, runVars, client, deployment, vector_store, index_queries,
                   fetch_calls, providers, session>>

\* a call of get_store_status
StoreStatus ==
    /\ Idle
    /\ index_op' = IndexOp("status", 0, "", "ok", vector_store,
                           GetStoreStatus(vector_store))
    /\ pc' = "called"
    /\ UNCHANGED <<mode, runVars, client, deployment, vector_store, index_queries,
                   fetch_calls, providers, session>>

\* the caller has taken what the handler returned
IndexReturn ==
    /\ pc = "called"
    /\ pc' = "idle"
    /\ index_op' = NoIndexOp
    /\ UNCHANGED <<mode, runVars, client, deployment, vector_store, index_queries,
                   fetch_calls, providers, session>>

(* --------------------------- document_indexer.py ----------------------- *)
MIN_DIRECT_TEXT_LENGTH_TO_TRIGGER_OCR == 200

\* a text: its number of characters and whether strip() leaves nothing
Text(len, blank) == [len |-> len, blank |-> blank]

\* the texts PyPDF2 and the OCR of the pages produce
Texts == {Text(0, TRUE)} \cup {Text(n, b) : n \in {100, 105, 150, 300}, b \in BOOLEAN}

\* how the OCR attempt of _extract_text_with_ocr ends
OcrOutcomes == {"text", "no_images", "tesseract_missing", "import_error", "exception"}

\* _extract_text_with_ocr: the OCR text replaces a short PyPDF2 text only
\* when it is not blank and more than 1.1 times as long
ExtractTextWithOcr(pypdf2_text, ocr_outcome, ocr_full_text) ==
    IF pypdf2_text.len < MIN_DIRECT_TEXT_LENGTH_TO_TRIGGER_OCR
    THEN IF /\ ocr_outcome = "text"
            /\ ~ocr_full_text.blank
            /\ 10 * ocr_full_text.len > 11 * pypdf2_text.len
         THEN ocr_full_text
         ELSE pypdf2_text
    ELSE pypdf2_text

\* text_splitter.split_text of a text that is not blank: pieces chunks, at
\* least one
SplitText(pdf_name, pieces) == [i \in 1..pieces |-> <<pdf_name, "chunk text", i>>]

\* a process_pdf that numbers the chunks from 0
ProcessPdf_ZeroBased(pdf_name, final_text_to_chunk, pieces) ==
    IF final_text_to_chunk.blank
    THEN <<>>
    ELSE LET text_chunks == SplitText(pdf_name, pieces)
         IN [i \in 1..Len(text_chunks) |->
               [page_content |-> text_chunks[i],
                metadata |-> [source |-> pdf_name, chunk_number |-> i - 1,
                              total_chunks |-> Len(text_chunks)]]]

\* process_pdf after the extraction of final_text_to_chunk
ProcessPdf(pdf_name, final_text_to_chunk, pieces) ==
    IF final_text_to_chunk.blank
    THEN <<>>
    ELSE LET text_chunks == SplitText(pdf_name, pieces)
         IN [i \in 1..Len(text_chunks) |->
               [page_content |-> text_chunks[i],
                metadata |-> [source |-> pdf_name, chunk_number |-> i,
                              total_chunks |-> Len(text_chunks)]]]

\* a call of process_pdf by any caller of the indexer: direct_text is what
\* _extract_text_from_pdf_pypdf2 returns ("" when PyPDF2 raises)
CallProcessPdf ==
    /\ Idle
    /\ \E pdf_name \in {"doc.pdf", "scan.pdf"}, direct_text \in Texts,
          ocr_outcome \in OcrOutcomes, ocr_full_text \in Texts, pieces \in 1..MaxStore :
         LET final_text_to_chunk == ExtractTextWithOcr(direct_text, ocr_outcome, ocr_full_text)
         IN index_op' = IndexOp("process_pdf", pieces, pdf_name, ocr_outcome,
                                final_text_to_chunk,
                                ProcessPdf(pdf_name, final_text_to_chunk, pieces))
    /\ pc' = "called"
    /\ UNCHANGED <<mode, runVars, client, deployment, vector_store, index_queries,
                   fetch_calls, providers, session>>

\* the DocumentIndexer on its own
IndexerNext == CallProcessPdf \/ IndexReturn

IndexerSpec == Init /\ [][IndexerNext]_vars

(* ---------------------------- conduct_research ------------------------- *)
\* the record conduct_research builds from one retrieved chunk
PdfRecord(chunk_doc) ==
    LET pdf_type == DictGet(chunk_doc.metadata, "pdf_type", "Unknown")
    IN [title |-> <<"PDF:", DictGet(chunk_doc.metadata, "source", "N/A"), pdf_type,
                    DictGet(chunk_doc.metadata, "chunk_number", "N/A")>>,
        content |-> chunk_doc.page_content,
        source |-> DictGet(chunk_doc.metadata, "source", "N/A"),
        chunk_number |-> DictGet(chunk_doc.metadata, "chunk_number", "N/A"),
        pdf_type |-> pdf_type,
        page_number |-> DictGet(chunk_doc.metadata, "page_number", "N/A")]

\* the values pdf_types takes: None, a dict file -> type, or the list of
\* selected types the shell passes
PdfTypesInputs ==
    {[kind |-> "none", types |-> {}],
     [kind |-> "dict", types |-> {"Paper"}],
     [kind |-> "dict", types |-> {}],
     [kind |-> "list", types |-> {"Paper"}],
     [kind |-> "list", types |-> {}]}

PdfTypesTruthy(pdf_types) == pdf_types.kind # "none" /\ pdf_types.types # {}

\* set(pdf_types.values()) if isinstance(pdf_types, dict) else set()
SelectedTypes(pdf_types) == IF pdf_types.kind = "dict" THEN pdf_types.types ELSE {}

\* filtered_chunks of conduct_research
FilteredChunks(relevant_pdf_chunks, pdf_types, uploaded_pdf_files) ==
    IF PdfTypesTruthy(pdf_types) /\ ~uploaded_pdf_files /\ SelectedTypes(pdf_types) # {}
    THEN LET Keep(chunk_doc) ==
                 DictGet(chunk_doc.metadata, "pdf_type", "Unknown") \in SelectedTypes(pdf_types)
         IN SelectSeq(relevant_pdf_chunks, Keep)
    ELSE relevant_pdf_chunks

\* conduct_research up to the provider loop: the search of the indexed PDFs;
\* behaviour is what the fetch functions of the selected providers will do
ConductResearch(q, sel, pdf_types, uploaded_pdf_files, store_passed, raises, found, behaviour) ==
    LET searched == SOURCE_PDF \in sel /\ store_passed /\ vector_store.exists
        relevant_pdf_chunks ==
            SearchRelevantChunks(vector_store, q, MAX_PDF_CHUNKS_TO_LLM, raises, found)
        filtered_chunks == FilteredChunks(relevant_pdf_chunks, pdf_types, uploaded_pdf_files)
        filtering == /\ PdfTypesTruthy(pdf_types) /\ ~uploaded_pdf_files
                     /\ SelectedTypes(pdf_types) # {}
        pdf_messages ==
            IF searched
            THEN <<Msg("searching", SOURCE_PDF)>>
                 \o (IF relevant_pdf_chunks = <<>> THEN <<Msg("no results", SOURCE_PDF)>>
                     ELSE <<Msg("found", SOURCE_PDF)>>
                          \o (IF filtering THEN <<Msg("filtered", SOURCE_PDF)>> ELSE <<>>))
            ELSE IF SOURCE_PDF \in sel /\ ~uploaded_pdf_files /\ ~store_passed
            THEN <<Msg("no pdfs", SOURCE_PDF)>>
            ELSE <<>>
    IN /\ query' = q
       /\ type_filter' = IF searched THEN pdf_types ELSE NoTypeFilter
       /\ progress' = <<Msg("starting", ""), Msg("query", ""), Msg("selected", "")>>
                      \o pdf_messages
       /\ selected_data_sources' = sel
       /\ source_data' =
            IF searched
            THEN [k \in {"pdf_sources"} |->
                    [i \in 1..Len(filtered_chunks) |-> PdfRecord(filtered_chunks[i])]]
            ELSE <<>>
       /\ index_queries' = IF searched THEN 1 ELSE 0
       /\ providers' = behaviour
       /\ mode' = "research"
       /\ pc' = "fetch"
       /\ fetch_i' = 1
       /\ processing_errors' = <<>>
       /\ source_summaries' = <<>>
       /\ llm_calls' = <<>>
       /\ result' = NoResult
       /\ regen_input' = <<>>
       /\ fetch_calls' = 0
       /\ index_op' = NoIndexOp
       /\ UNCHANGED <<client, deployment, vector_store>>

\* a call of conduct_research by any caller
StartResearch ==
    /\ Idle
    /\ \E q \in {"", "q"}, sel \in SUBSET {AVAILABLE_SOURCES[i] : i \in 1..Len(AVAILABLE_SOURCES)},
          pdf_types \in PdfTypesInputs, uploaded_pdf_files \in BOOLEAN,
          store_passed \in BOOLEAN, raises \in BOOLEAN,
          found \in SimilarityResults(vector_store, MAX_PDF_CHUNKS_TO_LLM) :
       \E behaviour \in [sel \cap Fetchable -> ProviderOutcomes] :
          ConductResearch(q, sel, pdf_types, uploaded_pdf_files, store_passed, raises,
                          found, behaviour)
    /\ UNCHANGED session

\* the normalised record of one dict item a provider returned
NormalizeItem(item) ==
    [title |-> DictGet(item, "title", <<"No title">>),
     content |-> DictGet(item, "content", DictGet(item, "snippet", <<"No content available">>)),
     url |-> DictGet(item, "url", DictGet(item, "href", <<>>)),
     metadata |-> DictGet(item, "metadata", <<>>)]

ProviderItem(source_name, i) ==
    [title |-> <<source_name, "title", i>>, snippet |-> <<source_name, "snippet", i>>,
     url |-> <<source_name, "url", i>>]

\* an iteration whose exception is not caught and leaves conduct_research
FetchSource_Uncaught ==
    /\ pc = "fetch"
    /\ fetch_i <= Len(AVAILABLE_SOURCES)
    /\ LET source_name == AVAILABLE_SOURCES[fetch_i]
           reached == /\ source_name \in selected_data_sources
                      /\ ~FetchFunctionIsNone(source_name)
                      /\ query # ""
       IN pc' = IF reached THEN "raised"
                ELSE IF fetch_i = Len(AVAILABLE_SOURCES) THEN "synthesis" ELSE "fetch"
    /\ fetch_i' = fetch_i + 1
    /\ UNCHANGED <<mode, query, selected_data_sources, source_data, processing_errors,
                   source_summaries, llm_calls, result, regen_input, type_filter, progress, client, deployment,
                   vector_store, index_queries, fetch_calls, providers, index_op, session>>

\* an iteration that leaves the loop once a selected provider was handled
FetchSource_Breaks ==
    /\ pc = "fetch"
    /\ fetch_i <= Len(AVAILABLE_SOURCES)
    /\ LET source_name == AVAILABLE_SOURCES[fetch_i]
           reached == /\ source_name \in selected_data_sources
                      /\ ~FetchFunctionIsNone(source_name)
       IN /\ progress' = IF ~reached THEN progress
                         ELSE progress \o <<Msg("fetching", source_name),
                                            Msg(IF query = "" THEN "skipping" ELSE "exception",
                                                source_name)>>
          /\ processing_errors' =
                IF reached /\ query # ""
                THEN Append(processing_errors,
                            <<"Exception fetching from", source_name, "AttributeError">>)
                ELSE processing_errors
          /\ pc' = IF reached \/ fetch_i = Len(AVAILABLE_SOURCES) THEN "synthesis" ELSE "fetch"
    /\ fetch_i' = fetch_i + 1
    /\ type_filter' = NoTypeFilter
    /\ UNCHANGED <<mode, query, selected_data_sources, source_data, source_summaries,
                   llm_calls, result, regen_input, client, deployment, vector_store,
                   index_queries, fetch_calls, providers, index_op, session>>

\* one iteration of the loop over AVAILABLE_SOURCES
FetchSource ==
    /\ pc = "fetch"
    /\ fetch_i <= Len(AVAILABLE_SOURCES)
    /\ LET source_name == AVAILABLE_SOURCES[fetch_i]
           source_key == SourceKey(source_name)
       IN IF ~(source_name \in selected_data_sources /\ ~FetchFunctionIsNone(source_name))
          THEN UNCHANGED <<source_data, processing_errors, fetch_calls, progress>>
          ELSE IF query = ""
          THEN /\ progress' = progress \o <<Msg("fetching", source_name),
                                             Msg("skipping", source_name)>>
               /\ UNCHANGED <<source_data, processing_errors, fetch_calls>>
          ELSE IF ~PubmedHasSourceName
          THEN \* AttributeError on pubmed_fetcher.SOURCE_NAME, caught below
               /\ processing_errors' = Append(processing_errors,
                      <<"Exception fetching from", source_name, "AttributeError">>)
               /\ progress' = progress \o <<Msg("fetching", source_name),
                                             Msg("exception", source_name)>>
               /\ UNCHANGED <<source_data, fetch_calls>>
          ELSE LET raises == providers[source_name].raises
                   n == providers[source_name].n
               IN
               /\ fetch_calls' = fetch_calls + 1
               /\ progress' = progress \o <<Msg("fetching", source_name),
                                             Msg(IF raises THEN "exception"
                                                 ELSE IF n = 0 THEN "no results"
                                                 ELSE "found", source_name)>>
               /\ IF raises
                  THEN /\ processing_errors' = Append(processing_errors,
                              <<"Exception fetching from", source_name, "e">>)
                       /\ UNCHANGED source_data
                  ELSE /\ UNCHANGED processing_errors
                       /\ IF n = 0 THEN UNCHANGED source_data
                          ELSE source_data' =
                                 [k \in DOMAIN source_data \cup {source_key} |->
                                    (IF k \in DOMAIN source_data THEN source_data[k] ELSE <<>>)
                                    \o (IF k = source_key
                                        THEN [i \in 1..n |-> NormalizeItem(ProviderItem(source_name, i))]
                                        ELSE <<>>)]
    /\ fetch_i' = fetch_i + 1
    /\ type_filter' = NoTypeFilter
    /\ pc' = IF fetch_i = Len(AVAILABLE_SOURCES) THEN "synthesis" ELSE "fetch"
    /\ UNCHANGED <<mode, query, selected_data_sources, source_summaries, llm_calls,
                   result, regen_input, client, deployment, vector_store, index_queries,
                   providers, index_op, session>>

(* ------------------------ regenerate_report_from_sources --------------- *)
\* the grouped-records maps a caller may hand in: any keys, up to MaxRecords
\* records under each
FilteredMaps ==
    {[k \in present |-> RecordList(k, lens[k])] :
        present \in SUBSET Keys, lens \in [Keys -> 0..MaxRecords]}

\* a regeneration that searches the index again before synthesising
StartRegenerate_Requery ==
    /\ Idle
    /\ \E q \in {"q"}, filtered \in FilteredMaps :
         /\ query' = q
         /\ source_data' = filtered
         /\ regen_input' = filtered
         /\ type_filter' = NoTypeFilter
         /\ progress' = <<>>
    /\ index_queries' = index_queries + 1
    /\ mode' = "regenerate"
    /\ pc' = "synthesis"
    /\ processing_errors' = <<>>
    /\ source_summaries' = <<>>
    /\ llm_calls' = <<>>
    /\ result' = NoResult
    /\ index_op' = NoIndexOp
    /\ UNCHANGED <<selected_data_sources, fetch_i, client, deployment, vector_store,
                   fetch_calls, providers, session>>

StartRegenerate ==
    /\ Idle
    /\ \E q \in {"q"}, filtered \in FilteredMaps :
         /\ query' = q
         /\ source_data' = filtered
         /\ regen_input' = filtered
         /\ type_filter' = NoTypeFilter
         /\ progress' = <<>>
    /\ mode' = "regenerate"
    /\ pc' = "synthesis"
    /\ processing_errors' = <<>>
    /\ source_summaries' = <<>>
    /\ llm_calls' = <<>>
    /\ result' = NoResult
    /\ index_op' = NoIndexOp
    /\ UNCHANGED <<selected_data_sources, fetch_i, client, deployment, vector_store,
                   index_queries, fetch_calls, providers, session>>

(* ----------------------------- _perform_synthesis ---------------------- *)
LLMCall(stage, key, prompt, response, failed) ==
    [stage |-> stage, key |-> key, prompt |-> prompt, response |-> response,
     failed |-> failed]

ProbePrompt ==
    [stage |-> "probe", query |-> "Test", name |-> "You are a helpful assistant.",
     entries |-> <<>>]

\* if total_sources == 0
IsEmptyRun_KeysOnly(sd) == DOMAIN sd = {}
IsEmptyRun(sd) == TotalSources(sd) = 0

\* the dict returned when nothing was gathered
EmptyResult_NotRaw(sd) ==
    [report |-> EmptyReportText, source_data |-> sd, is_raw_data |-> FALSE]
EmptyResult(sd) ==
    [report |-> EmptyReportText, source_data |-> sd, is_raw_data |-> TRUE]

\* total_sources == 0: return at once
EmptyReport ==
    /\ pc = "synthesis"
    /\ IsEmptyRun(source_data)
    /\ result' = EmptyResult(source_data)
    /\ pc' = "done"
    /\ UNCHANGED <<mode, query, selected_data_sources, fetch_i, source_data,
                   processing_errors, source_summaries, llm_calls, regen_input, type_filter, progress,
                   client, deployment, vector_store, index_queries, fetch_calls,
                   providers, index_op, session>>

\* the availability check and, when it fails, the raw data report
Probe ==
    /\ pc = "synthesis"
    /\ ~IsEmptyRun(source_data)
    /\ \E init \in InitOutcomes, api \in ApiOutcomes :
         LET c == InitializeClient(client, init)
             llm_test_response == LLMResponse(c, deployment, api)
         IN /\ client' = c
            /\ llm_calls' = Append(llm_calls,
                  LLMCall("probe", "", ProbePrompt, llm_test_response,
                          IsClientFailure(c, deployment, api)))
            /\ IF ~LLMAvailable(llm_test_response)
               THEN /\ result' = CreateRawDataReport(query, source_data, processing_errors)
                    /\ pc' = "done"
               ELSE /\ pc' = "stageA"
                    /\ UNCHANGED result
    /\ UNCHANGED <<mode, query, selected_data_sources, fetch_i, source_data,
                   processing_errors, source_summaries, regen_input, type_filter, progress,
                   deployment, vector_store, index_queries, fetch_calls,
                   providers, index_op, session>>

\* the categories _summarize_individual_sources has still to summarize
PendingKeys_EmptyToo(sd, summaries) == {k \in DOMAIN sd : k \notin DOMAIN summaries}
PendingKeys(sd, summaries) == {k \in NonEmptyKeys(sd) : k \notin DOMAIN summaries}

FirstPending(pending) ==
    KeyOrder[CHOOSE i \in 1..Len(KeyOrder) :
                /\ KeyOrder[i] \in pending
                /\ \A j \in 1..(i - 1) : KeyOrder[j] \notin pending]

\* one iteration of the loop of _summarize_individual_sources that makes a call
StageA ==
    /\ pc = "stageA"
    /\ PendingKeys(source_data, source_summaries) # {}
    /\ \E init \in InitOutcomes, api \in ApiOutcomes :
         LET source_type == FirstPending(PendingKeys(source_data, source_summaries))
             c == InitializeClient(client, init)
             summary_response == LLMResponse(c, deployment, api)
             summaries == [k \in DOMAIN source_summaries \cup {source_type} |->
                             IF k = source_type
                             THEN StageASummary(source_type, summary_response)
                             ELSE source_summaries[k]]
         IN /\ client' = c
            /\ llm_calls' = Append(llm_calls,
                  LLMCall("A", source_type,
                          SummaryPrompt(query, source_type, source_data[source_type]),
                          summary_response, IsClientFailure(c, deployment, api)))
            /\ source_summaries' = summaries
            /\ pc' = IF PendingKeys(source_data, summaries) = {} THEN "stageB" ELSE "stageA"
    /\ UNCHANGED <<mode, query, selected_data_sources, fetch_i, source_data,
                   processing_errors, result, regen_input, type_filter, progress,
                   deployment, vector_store, index_queries, fetch_calls,
                   providers, index_op, session>>

\* _create_final_synthesis, _create_final_report and the return
StageB ==
    /\ pc = "stageB"
    /\ IF DOMAIN source_summaries = {}
       THEN /\ result' = [report |-> CreateFinalReport(query,
                                        <<"No source summaries available for synthesis.">>,
                                        source_data, source_summaries, processing_errors),
                          source_data |-> source_data, is_raw_data |-> FALSE]
            /\ UNCHANGED <<client, llm_calls>>
       ELSE \E init \in InitOutcomes, api \in ApiOutcomes :
              LET c == InitializeClient(client, init)
                  synthesis_response == LLMResponse(c, deployment, api)
              IN /\ client' = c
                 /\ llm_calls' = Append(llm_calls,
                       LLMCall("B", "", SynthesisPrompt(query, source_summaries),
                               synthesis_response, IsClientFailure(c, deployment, api)))
                 /\ result' = [report |-> CreateFinalReport(query,
                                             FinalSynthesis(synthesis_response),
                                             source_data, source_summaries, processing_errors),
                               source_data |-> source_data, is_raw_data |-> FALSE]
    /\ pc' = "done"
    /\ UNCHANGED <<mode, query, selected_data_sources, fetch_i, source_data,
                   processing_errors, source_summaries, regen_input, type_filter, progress,
                   deployment, vector_store, index_queries, fetch_calls,
                   providers, index_op, session>>

\* the caller has taken the returned dict; the locals of the run are gone
Return ==
    /\ pc = "done"
    /\ ~session.processing
    /\ pc' = "idle"
    /\ mode' = "none"
    /\ query' = ""
    /\ selected_data_sources' = {}
    /\ fetch_i' = 1
    /\ source_data' = <<>>
    /\ processing_errors' = <<>>
    /\ source_summaries' = <<>>
    /\ llm_calls' = <<>>
    /\ result' = NoResult
    /\ regen_input' = <<>>
    /\ type_filter' = NoTypeFilter
    /\ progress' = <<>>
    /\ index_queries' = 0
    /\ fetch_calls' = 0
    /\ providers' = NoProviders
    /\ UNCHANGED <<client, deployment, vector_store, index_op, session>>

Next ==
    \/ InitStore
    \/ AddDocuments
    \/ SearchChunks
    \/ StoreStatus
    \/ IndexReturn
    \/ StartResearch
    \/ FetchSource
    \/ StartRegenerate
    \/ EmptyReport
    \/ Probe
    \/ StageA
    \/ StageB
    \/ Return

Spec == Init /\ [][Next]_vars

\* the steps of a run in progress; the interpreter keeps executing them
RunStep == FetchSource \/ EmptyReport \/ Probe \/ StageA \/ StageB

\* the handler and conduct_research alone
ResearchNext ==
    \/ InitStore
    \/ AddDocuments
    \/ IndexReturn
    \/ StartResearch
    \/ FetchSource
    \/ EmptyReport
    \/ Probe
    \/ StageA
    \/ StageB
    \/ Return

ResearchSpec == Init /\ [][ResearchNext]_vars /\ WF_vars(RunStep)

(* -------------------------------- app.py ------------------------------- *)
\* the names of the files a user uploads
PdfNames == {"doc.pdf", "more.pdf", "scan.pdf"}

\* the data sources a user ticks in the sidebar
ShellSources == {SOURCE_PDF, DDG_SOURCE_NAME}

\* the session holds a handler whose vector_store is set
HasIndexedStore == session.pdf_vector_store /\ vector_store.exists

\* show_login_form with the right credentials
Login ==
    /\ Idle
    /\ ~session.authenticated
    /\ session' = [session EXCEPT !.authenticated = TRUE]
    /\ UNCHANGED <<pc, mode, runVars, client, deployment, vector_store, index_queries,
                   fetch_calls, providers, index_op>>

\* a logout that also drops the handler of the session
Logout_ClearsStore ==
    /\ Idle
    /\ session.authenticated
    /\ session' = [session EXCEPT !.authenticated = FALSE, !.results = <<>>,
                                  !.source_data = <<>>, !.uploaded_pdfs = {},
                                  !.filtered_sources = {},
                                  !.pdf_vector_store = FALSE]
    /\ vector_store' = NoStore
    /\ UNCHANGED <<pc, mode, runVars, client, deployment, index_queries,
                   fetch_calls, providers, index_op>>

\* the Logout button: the handler of the session is kept
Logout ==
    /\ Idle
    /\ session.authenticated
    /\ session' = [session EXCEPT !.authenticated = FALSE, !.results = <<>>,
                                  !.source_data = <<>>, !.uploaded_pdfs = {},
                                  !.filtered_sources = {}]
    /\ UNCHANGED <<pc, mode, runVars, client, deployment, vector_store, index_queries,
                   fetch_calls, providers, index_op>>

\* the Reset button: the handler of the session is kept
Reset ==
    /\ Idle
    /\ session.authenticated
    /\ session' = [session EXCEPT !.processing = FALSE, !.results = <<>>,
                                  !.source_data = <<>>, !.uploaded_pdfs = {},
                                  !.filtered_sources = {}]
    /\ UNCHANGED <<pc, mode, runVars, client, deployment, vector_store, index_queries,
                   fetch_calls, providers, index_op>>

\* the Clear All Documents button
ClearAllDocuments ==
    /\ Idle
    /\ session.authenticated
    /\ session' = [session EXCEPT !.uploaded_pdfs = {}]
    /\ UNCHANGED <<pc, mode, runVars, client, deployment, vector_store, index_queries,
                   fetch_calls, providers, index_op>>

\* process_pdf(self, pdf_file_stream, pdf_name) has no parameter for the
\* pdf_type the Submit Documents handler passes as a third argument, so the
\* call raises TypeError
ProcessPdfTakesType == FALSE

\* the text of an uploaded file: scan.pdf is a blank scan, the others have text
PdfText(pdf_name) == IF pdf_name = "scan.pdf" THEN Text(100, TRUE) ELSE Text(300, FALSE)

\* len(all_pdf_chunks) when process_pdf cuts a text into pieces chunks
RECURSIVE ChunkCount(_, _)
ChunkCount(files, pieces) ==
    IF files = {} THEN 0
    ELSE LET pdf_name == CHOOSE f \in files : TRUE
         IN Len(ProcessPdf(pdf_name, PdfText(pdf_name), pieces))
            + ChunkCount(files \ {pdf_name}, pieces)

\* the Submit Documents button: files are the uploaded files, pieces the
\* number of chunks process_pdf cuts a text into, handler_ok whether a new
\* VectorStoreHandler can be constructed, outcome how the FAISS call ends
SubmitDocuments ==
    /\ Idle
    /\ session.authenticated
    /\ \E files \in SUBSET PdfNames \ {{}}, pieces \in 1..MaxStore, handler_ok \in BOOLEAN,
          outcome \in FaissOutcomes :
         LET existing == HasIndexedStore
             n == ChunkCount(files, pieces)
             all_pdf_chunks == NextBatch(vector_store, n)
             \* the TypeError of the first process_pdf call leaves the try block
             indexing == ProcessPdfTakesType /\ n > 0 /\ (existing \/ handler_ok)
             store == IF ~indexing THEN vector_store
                      ELSE IF existing
                      THEN AddDocumentsToStore(vector_store, all_pdf_chunks, outcome)
                      ELSE InitStoreFromDocuments(NoStore, Batch(n), outcome)
         IN /\ vector_store.vectors + n <= MaxStore
            /\ vector_store' = IF existing \/ store.exists THEN store ELSE vector_store
            /\ index_op' =
                 IF ~indexing THEN index_op
                 ELSE IF existing
                 THEN IndexOp("add", n, "", outcome, vector_store, <<>>)
                 ELSE IndexOp("init", n, "", outcome, NoStore, <<>>)
            /\ session' = [session EXCEPT
                             !.uploaded_pdfs = @ \cup files,
                             !.pdf_vector_store = IF indexing /\ store.exists THEN TRUE ELSE @]
    /\ UNCHANGED <<pc, mode, runVars, client, deployment, index_queries, fetch_calls,
                   providers>>

\* the Start Research button, up to the provider loop of conduct_research
ShellStartResearch ==
    /\ Idle
    /\ session.authenticated
    /\ \E q \in {"q"}, sel \in SUBSET ShellSources \ {{}},
          selected_types \in SUBSET {"Paper"}, raises \in BOOLEAN,
          found \in SimilarityResults(vector_store, MAX_PDF_CHUNKS_TO_LLM) :
       \E behaviour \in [sel \cap Fetchable -> ProviderOutcomes] :
          LET has_indexed_pdfs == HasIndexedStore /\ Len(vector_store.docs) > 0
              pdf_types == IF SOURCE_PDF \in sel
                           THEN [kind |-> "list", types |-> selected_types]
                           ELSE [kind |-> "none", types |-> {}]
          IN /\ SOURCE_PDF \in sel => has_indexed_pdfs
             /\ ConductResearch(q, sel, pdf_types, FALSE, session.pdf_vector_store,
                                raises, found, behaviour)
    /\ session' = [session EXCEPT !.processing = TRUE, !.results = <<>>]

\* the except branch of the Start Research handler: an exception leaves the
\* try block while the run is in progress
ShellResearchRaises ==
    /\ pc \in {"fetch", "synthesis", "stageA", "stageB"}
    /\ mode = "research"
    /\ session.processing
    /\ session' = [session EXCEPT
                     !.results = <<Part("message", "", "An unexpected critical error occurred")>>,
                     !.processing = FALSE]
    /\ pc' = "idle"
    /\ mode' = "none"
    /\ query' = ""
    /\ selected_data_sources' = {}
    /\ fetch_i' = 1
    /\ source_data' = <<>>
    /\ processing_errors' = <<>>
    /\ source_summaries' = <<>>
    /\ llm_calls' = <<>>
    /\ result' = NoResult
    /\ regen_input' = <<>>
    /\ type_filter' = NoTypeFilter
    /\ progress' = <<>>
    /\ index_queries' = 0
    /\ fetch_calls' = 0
    /\ providers' = NoProviders
    /\ UNCHANGED <<client, deployment, vector_store, index_op>>

\* the number of records the results page lists
ListedSources(sd) ==
    Len(DictGet(sd, "pdf_sources", <<>>)) + Len(DictGet(sd, "pubmed_sources", <<>>))
    + Len(DictGet(sd, "web_sources", <<>>))

\* a return that leaves the processing flag set
ShellReturn_KeepsProcessing ==
    /\ pc = "done"
    /\ mode = "research"
    /\ session.processing
    /\ session' = [session EXCEPT !.results = result.report,
                                  !.source_data = result.source_data,
                                  !.is_raw_data = result.is_raw_data,
                                  !.filtered_sources = 1..ListedSources(result.source_data)]
    /\ pc' = "idle"
    /\ mode' = "none"
    /\ query' = ""
    /\ selected_data_sources' = {}
    /\ fetch_i' = 1
    /\ source_data' = <<>>
    /\ processing_errors' = <<>>
    /\ source_summaries' = <<>>
    /\ llm_calls' = <<>>
    /\ result' = NoResult
    /\ regen_input' = <<>>
    /\ type_filter' = NoTypeFilter
    /\ progress' = <<>>
    /\ index_queries' = 0
    /\ fetch_calls' = 0
    /\ providers' = NoProviders
    /\ UNCHANGED <<client, deployment, vector_store, index_op>>

\* the dict of conduct_research is stored in the session
ShellReturn ==
    /\ pc = "done"
    /\ mode = "research"
    /\ session.processing
    /\ session' = [session EXCEPT !.results = result.report,
                                  !.source_data = result.source_data,
                                  !.is_raw_data = result.is_raw_data,
                                  !.filtered_sources = 1..ListedSources(result.source_data),
                                  !.processing = FALSE]
    /\ pc' = "idle"
    /\ mode' = "none"
    /\ query' = ""
    /\ selected_data_sources' = {}
    /\ fetch_i' = 1
    /\ source_data' = <<>>
    /\ processing_errors' = <<>>
    /\ source_summaries' = <<>>
    /\ llm_calls' = <<>>
    /\ result' = NoResult
    /\ regen_input' = <<>>
    /\ type_filter' = NoTypeFilter
    /\ progress' = <<>>
    /\ index_queries' = 0
    /\ fetch_calls' = 0
    /\ providers' = NoProviders
    /\ UNCHANGED <<client, deployment, vector_store, index_op>>

\* the source lists the results page shows and filters
ShellKeys == <<"pdf_sources", "pubmed_sources", "web_sources">>

\* the positions of the flat list all_sources that belong to ShellKeys[t]
FlatRange(sd, t) ==
    LET before == IF t = 1 THEN 0
                  ELSE IF t = 2 THEN Len(DictGet(sd, ShellKeys[1], <<>>))
                  ELSE Len(DictGet(sd, ShellKeys[1], <<>>)) + Len(DictGet(sd, ShellKeys[2], <<>>))
    IN (before + 1)..(before + Len(DictGet(sd, ShellKeys[t], <<>>)))

\* filtered_data: for every selected position of a type the loop appends the
\* record at that type's counter, and the counter moves only then
FilteredData(sd, filtered_sources) ==
    [k \in {ShellKeys[t] : t \in 1..3} |->
        LET t == CHOOSE u \in 1..3 : ShellKeys[u] = k
        IN FirstK(DictGet(sd, k, <<>>), Cardinality(filtered_sources \cap FlatRange(sd, t)))]

\* sources_summary of regenerate_insights
SourcesSummary(filtered_data) ==
    LET Titles(k) == [i \in 1..Len(filtered_data[k]) |->
                        DictGet(filtered_data[k][i], "title", <<"untitled">>)]
    IN Titles(ShellKeys[1]) \o Titles(ShellKeys[2]) \o Titles(ShellKeys[3])

SourceParts(titles) == [i \in 1..Len(titles) |-> Part("source", "", titles[i])]

\* "Error:" in llm_response
ContainsErrorColon(response) ==
    \E i \in 1..Len(response) : response[i] \in {"Error:", "API Connection Error:"}

\* regenerate_insights, given the replies to its two get_llm_response calls
RegenerateInsights(filtered_data, q, llm_test_response, llm_response) ==
    LET sources_summary == SourcesSummary(filtered_data)
    IN IF sources_summary = <<>>
       THEN [report |-> <<Part("message", "", "No sources selected for regeneration.")>>,
             is_raw_data |-> TRUE, calls |-> 0]
       ELSE IF ~LLMAvailable(llm_test_response)
       THEN [report |-> <<Part("heading", "", q),
                          Part("note", "", "LLM processing is not available"),
                          Part("selected", "", Len(sources_summary))>>
                        \o SourceParts(sources_summary),
             is_raw_data |-> TRUE, calls |-> 1]
       ELSE IF /\ ContainsErrorColon(llm_response)
               /\ \/ Contains(llm_response, "Azure OpenAI")
                  \/ Contains(llm_response, "Language Model")
       THEN [report |-> <<Part("message", "",
                               <<"Failed to get a response from the Language Model.">>
                               \o llm_response)>>,
             is_raw_data |-> TRUE, calls |-> 2]
       ELSE [report |-> <<Part("heading", "", q),
                          Part("note", "", "synthesized from selected sources"),
                          Part("selected", "", Len(sources_summary))>>
                        \o SourceParts(sources_summary)
                        \o <<Part("synthesis", "", llm_response)>>,
             is_raw_data |-> FALSE, calls |-> 2]

\* llm_prompt of regenerate_insights: the contents of all selected records
RegeneratePrompt(filtered_data, q) ==
    LET Contents(k) == [i \in 1..Len(filtered_data[k]) |->
                          DictGet(filtered_data[k][i], "content", <<>>)]
    IN [stage |-> "regenerate", query |-> q, name |-> "",
        entries |-> Contents(ShellKeys[1]) \o Contents(ShellKeys[2]) \o Contents(ShellKeys[3])]

\* the positions of the list of sources the results page shows
ListedPositions(sd) == 1..ListedSources(sd)

\* the Regenerate Insights button of the results page, up to the dict
\* regenerate_insights returns
ShellRegenerate ==
    /\ Idle
    /\ session.authenticated
    /\ session.results # <<>>
    /\ \E q \in {"q"}, init \in InitOutcomes, api1 \in ApiOutcomes, api2 \in ApiOutcomes,
          filtered_sources \in SUBSET ListedPositions(session.source_data) \ {{}} :
         LET c == InitializeClient(client, init)
             filtered_data == FilteredData(session.source_data, filtered_sources)
             llm_test_response == LLMResponse(c, deployment, api1)
             llm_response == LLMResponse(c, deployment, api2)
             regeneration_result ==
                 RegenerateInsights(filtered_data, q, llm_test_response, llm_response)
             test_call == LLMCall("probe", "", ProbePrompt, llm_test_response,
                                  IsClientFailure(c, deployment, api1))
             synthesis_call == LLMCall("regenerate", "", RegeneratePrompt(filtered_data, q),
                                       llm_response, IsClientFailure(c, deployment, api2))
         IN /\ client' = IF regeneration_result.calls > 0 THEN c ELSE client
            /\ query' = q
            /\ source_data' = filtered_data
            /\ regen_input' = filtered_data
            /\ llm_calls' = IF regeneration_result.calls = 0 THEN <<>>
                            ELSE IF regeneration_result.calls = 1 THEN <<test_call>>
                            ELSE <<test_call, synthesis_call>>
            /\ result' = [report |-> regeneration_result.report,
                          source_data |-> session.source_data,
                          is_raw_data |-> regeneration_result.is_raw_data]
            /\ session' = [session EXCEPT !.processing = TRUE,
                                          !.filtered_sources = filtered_sources]
    /\ mode' = "shell_regenerate"
    /\ pc' = "done"
    /\ UNCHANGED <<selected_data_sources, fetch_i, processing_errors, source_summaries,
                   type_filter, progress, deployment, vector_store, index_queries,
                   fetch_calls, providers, index_op>>

\* the dict of regenerate_insights is stored in the session
ShellRegenerateReturn ==
    /\ pc = "done"
    /\ mode = "shell_regenerate"
    /\ session.processing
    /\ session' = [session EXCEPT !.results = result.report,
                                  !.is_raw_data = result.is_raw_data,
                                  !.processing = FALSE]
    /\ pc' = "idle"
    /\ mode' = "none"
    /\ query' = ""
    /\ source_data' = <<>>
    /\ llm_calls' = <<>>
    /\ result' = NoResult
    /\ regen_input' = <<>>
    /\ UNCHANGED <<selected_data_sources, fetch_i, processing_errors, source_summaries,
                   type_filter, progress, client, deployment, vector_store, index_queries,
                   fetch_calls, providers, index_op>>

\* the except branch of the regeneration handler: the stored report is kept
\* and the error is appended to the progress messages
ShellRegenerateRaises ==
    /\ pc = "done"
    /\ mode = "shell_regenerate"
    /\ session.processing
    /\ session' = [session EXCEPT !.processing = FALSE]
    /\ pc' = "idle"
    /\ mode' = "none"
    /\ query' = ""
    /\ source_data' = <<>>
    /\ llm_calls' = <<>>
    /\ result' = NoResult
    /\ regen_input' = <<>>
    /\ progress' = <<Msg("regeneration error", "")>>
    /\ UNCHANGED <<selected_data_sources, fetch_i, processing_errors, source_summaries,
                   type_filter, client, deployment, vector_store, index_queries,
                   fetch_calls, providers, index_op>>

\* the Streamlit shell: one handler per rerun. No run of the shell gathers a
\* record (no index is built, every provider fails), so the synthesis stages
\* and the Regenerate Insights button are never reached
ShellNext ==
    \/ Login
    \/ Logout
    \/ Reset
    \/ SubmitDocuments
    \/ ClearAllDocuments
    \/ ShellStartResearch
    \/ FetchSource
    \/ EmptyReport
    \/ ShellResearchRaises
    \/ ShellReturn

ShellSpec == Init /\ [][ShellNext]_vars

\* the grouped records a session may store: up to MaxRecords document and
\* web records, with or without a record of a third category
StoredMaps ==
    {[k \in {"pdf_sources", "web_sources"} \cup other |->
         IF k = "pdf_sources" THEN RecordList(k, pdfs)
         ELSE IF k = "web_sources" THEN RecordList(k, webs)
         ELSE RecordList(k, 1)] :
       pdfs \in 0..MaxRecords, webs \in 0..MaxRecords, other \in {{}, {"arxiv__sources"}}}

StoredReport == <<Part("message", "", "stored report")>>

\* the sessions the Regenerate Insights handler is applied to: a report is
\* shown for the stored grouped records
StoredSessions ==
    {[NewSession EXCEPT !.authenticated = TRUE,
                        !.results = StoredReport,
                        !.source_data = sd,
                        !.filtered_sources = ListedPositions(sd)] : sd \in StoredMaps}

RegenerateInit ==
    /\ pc = "idle"
    /\ mode = "none"
    /\ query = ""
    /\ selected_data_sources = {}
    /\ fetch_i = 1
    /\ source_data = <<>>
    /\ processing_errors = <<>>
    /\ source_summaries = <<>>
    /\ llm_calls = <<>>
    /\ result = NoResult
    /\ regen_input = <<>>
    /\ type_filter = NoTypeFilter
    /\ progress = <<>>
    /\ client = "uninit"
    /\ deployment \in BOOLEAN
    /\ vector_store = NoStore
    /\ index_queries = 0
    /\ fetch_calls = 0
    /\ providers = NoProviders
    /\ index_op = NoIndexOp
    /\ session \in StoredSessions

\* the Regenerate Insights handler applied to a stored session, once: not
\* again after a regeneration that raised
RegenerateStored ==
    /\ session.results = StoredReport
    /\ progress = <<>>
    /\ ShellRegenerate

\* the runs of the shell: a regeneration from the stored session and research
RegenerateNext ==
    \/ RegenerateStored
    \/ ShellRegenerateReturn
    \/ ShellRegenerateRaises
    \/ ShellStartResearch
    \/ FetchSource
    \/ EmptyReport
    \/ ShellResearchRaises
    \/ ShellReturn

RegenerateSpec == RegenerateInit /\ [][RegenerateNext]_vars

(* ------------------------------ properties ----------------------------- *)
\* an error-shaped reply, as the availability check recognises it
ErrorShaped(response) ==
    \/ (Len(response) > 0 /\ response[1] = "Error:")
    \/ \E i \in 1..Len(response) : response[i] \in {"Azure OpenAI", "Language Model"}

ProbeMade == llm_calls # <<>>
ProbeFailed == ProbeMade /\ ErrorShaped(llm_calls[1].response)
ProbeSucceeded == ProbeMade /\ ~ErrorShaped(llm_calls[1].response)

CallsOfStage(stage) == {i \in 1..Len(llm_calls) : llm_calls[i].stage = stage}
StageACallsFor(k) == {i \in CallsOfStage("A") : llm_calls[i].key = k}

RecordCount(sd) == SumLens(sd, DOMAIN sd)

HasPart(report, tag, key, val) ==
    \E i \in 1..Len(report) :
        report[i].tag = tag /\ report[i].key = key /\ report[i].val = val

PartsTagged(report, tag) == {i \in 1..Len(report) : report[i].tag = tag}

InSynthesis == pc \in {"synthesis", "stageA", "stageB", "done"}

\* C1: whenever the map handed to synthesis holds 0 records in total, the run
\* makes no language-model call at all (not even the probe), goes from the
\* entry of synthesis straight to its return, and returns the fixed
\* "nothing gathered" message with the map it was given.
C1_EmptyReportNoLLMCall ==
    (InSynthesis /\ RecordCount(source_data) = 0) =>
        /\ llm_calls = <<>>
        /\ pc \in {"synthesis", "done"}
        /\ pc = "done" =>
             /\ result.report = EmptyReportText
             /\ result.source_data = source_data

C1_Witness ==
    /\ pc = "done"
    /\ DOMAIN source_data # {}
    /\ RecordCount(source_data) = 0
    /\ result.report = EmptyReportText
    /\ llm_calls = <<>>

\* C2: when the reply to the availability probe is error-shaped, the probe is
\* the only language-model call of the run (no retry, no Stage A call, no
\* Stage B call) and the run has returned with is_raw_data = TRUE.
C2_FailedProbeIsOnlyCall ==
    \A i \in 1..Len(llm_calls) :
        (llm_calls[i].stage = "probe" /\ ErrorShaped(llm_calls[i].response)) =>
            /\ Len(llm_calls) = 1
            /\ pc = "done"
            /\ result.is_raw_data = TRUE

C2_Witness ==
    /\ pc = "done"
    /\ Len(llm_calls) = 1
    /\ llm_calls[1].stage = "probe"
    /\ llm_calls[1].failed
    /\ llm_calls[1].response[1] # "Error:"
    /\ result.is_raw_data = TRUE

\* C3: when the probe fails, the returned dict has is_raw_data = TRUE and its
\* source_data holds every non-empty category of the input map with exactly
\* the records, in order, that the input held.
C3_DegradedKeepsEveryCategory ==
    (pc = "done" /\ ProbeFailed) =>
        /\ result.is_raw_data = TRUE
        /\ \A k \in NonEmptyKeys(source_data) :
             /\ k \in DOMAIN result.source_data
             /\ result.source_data[k] = source_data[k]
        /\ mode = "regenerate" => source_data = regen_input

C3_Witness ==
    /\ pc = "done"
    /\ ProbeFailed
    /\ Cardinality(NonEmptyKeys(source_data)) >= 2
    /\ \E k \in DOMAIN source_data : source_data[k] = <<>>
    /\ result.source_data = source_data

C5_StageAOneCallPerCategory ==
    (pc \in {"stageB", "done"} /\ ProbeSucceeded) =>
        /\ \A k \in NonEmptyKeys(source_data) :
             /\ Cardinality(StageACallsFor(k)) = 1
             /\ \A i \in StageACallsFor(k) :
                  llm_calls[i].prompt.entries
                    = [j \in 1..Len(source_data[k]) |-> PromptEntry(source_data[k][j])]
        /\ \A i \in CallsOfStage("A") : llm_calls[i].key \in NonEmptyKeys(source_data)
        /\ DOMAIN source_summaries = NonEmptyKeys(source_data)

C5_Witness ==
    /\ pc = "stageB"
    /\ ProbeSucceeded
    /\ Cardinality(NonEmptyKeys(source_data)) = 2
    /\ \E k \in DOMAIN source_data : source_data[k] = <<>>
    /\ Cardinality(CallsOfStage("A")) = 2

\* C6 as stated: if the Stage A call for a category fails (the client returns
\* one of its error strings), that category's summary is the error
\* placeholder, every non-empty category still has a summary and Stage B runs.
C6_Original_FailedSummaryIsPlaceholder ==
    (pc \in {"stageB", "done"} /\ ProbeSucceeded) =>
        /\ \A i \in CallsOfStage("A") :
             llm_calls[i].failed =>
                source_summaries[llm_calls[i].key] = ErrorSummary(llm_calls[i].key)
        /\ DOMAIN source_summaries = NonEmptyKeys(source_data)
        /\ pc = "done" => CallsOfStage("B") # {}

\* C7: if the Stage B call fails after the probe succeeded, the run still
\* returns a synthesized (not raw) report whose synthesis section holds the
\* failure message, and every Stage A summary is in the report.
C7_StageBFailureKeepsSummaries ==
    (pc = "done" /\ \E i \in CallsOfStage("B") : llm_calls[i].failed) =>
        LET failure == llm_calls[Len(llm_calls)].response
        IN /\ result.is_raw_data = FALSE
           /\ \/ HasPart(result.report, "synthesis", "", failure)
              \/ HasPart(result.report, "synthesis", "",
                         <<"Error creating final synthesis:">> \o failure)
           /\ DOMAIN source_summaries = NonEmptyKeys(source_data)
           /\ \A k \in DOMAIN source_summaries :
                HasPart(result.report, "summary", SourceTypeName(k), source_summaries[k])

C7_Witness ==
    /\ pc = "done"
    /\ \E i \in CallsOfStage("B") : llm_calls[i].failed
    /\ Cardinality(DOMAIN source_summaries) >= 2
    /\ \A k \in DOMAIN source_summaries :
         HasPart(result.report, "summary", SourceTypeName(k), source_summaries[k])

ReportHasErrors(report) ==
    \A e \in 1..Len(processing_errors) : HasPart(report, "error", "", processing_errors[e])

ReportHasBreakdown(report) ==
    \A k \in NonEmptyKeys(source_data) :
        HasPart(report, "count", SourceTypeName(k), Len(source_data[k]))

\* C8 as stated: both the Degraded-Report and the Synthesized-Report hold the
\* source count of every non-empty category and every accumulated error; the
\* Synthesized-Report also holds every Stage A summary and the synthesis.
C8_Original_BothReportsHaveBreakdown ==
    (pc = "done" /\ ProbeMade) =>
        /\ ReportHasBreakdown(result.report)
        /\ ReportHasErrors(result.report)
        /\ ~result.is_raw_data =>
             /\ \A k \in DOMAIN source_summaries :
                  HasPart(result.report, "summary", SourceTypeName(k), source_summaries[k])
             /\ PartsTagged(result.report, "synthesis") # {}

\* C8 as amended: both reports hold the total number of records and every
\* accumulated error; the Synthesized-Report also holds the count of every
\* non-empty category, every Stage A summary and the Stage B synthesis; the
\* Degraded-Report holds no per-category count.
C8_ReportAssembly ==
    (pc = "done" /\ ProbeMade) =>
        /\ HasPart(result.report, "total", "", RecordCount(source_data))
        /\ ReportHasErrors(result.report)
        /\ result.is_raw_data => PartsTagged(result.report, "count") = {}
        /\ ~result.is_raw_data =>
             /\ ReportHasBreakdown(result.report)
             /\ DOMAIN source_summaries = NonEmptyKeys(source_data)
             /\ \A k \in DOMAIN source_summaries :
                  HasPart(result.report, "summary", SourceTypeName(k), source_summaries[k])
             /\ Cardinality(PartsTagged(result.report, "synthesis")) = 1

C8_Witness ==
    /\ pc = "done"
    /\ ~result.is_raw_data
    /\ processing_errors # <<>>
    /\ ReportHasErrors(result.report)
    /\ ReportHasBreakdown(result.report)
    /\ NonEmptyKeys(source_data) # {}

C10_RegenerationPurity ==
    [][mode' = "regenerate" =>
         /\ fetch_calls' = fetch_calls
         /\ index_queries' = index_queries
         /\ vector_store' = vector_store
         /\ source_data' = regen_input'
         /\ processing_errors' = <<>>
         /\ pc' = "done" =>
              /\ result'.source_data = regen_input'
              /\ RecordCount(regen_input') = 0 <=> result'.report = EmptyReportText
              /\ RecordCount(regen_input') # 0 =>
                   HasPart(result'.report, "total", "", RecordCount(regen_input'))
              /\ \A i \in PartsTagged(result'.report, "count") :
                   \E k \in NonEmptyKeys(regen_input') :
                      /\ result'.report[i].key = SourceTypeName(k)
                      /\ result'.report[i].val = Len(regen_input'[k])]_vars

C10_Witness ==
    /\ pc = "done"
    /\ mode = "regenerate"
    /\ vector_store.exists
    /\ result.is_raw_data = FALSE
    /\ result.source_data = regen_input
    /\ Cardinality(NonEmptyKeys(regen_input)) = 2
    /\ Cardinality(PartsTagged(result.report, "count")) = 2

(* ------------------------- the provider loop --------------------------- *)
\* the provider loop of a research run has finished
FetchLoopDone == mode = "research" /\ pc \in {"synthesis", "stageA", "stageB", "done"}

\* the records the n dicts returned by a provider are normalised to
RecordsOf(source_name, n) == [i \in 1..n |-> NormalizeItem(ProviderItem(source_name, i))]

HoldsRecordsOf(source_name, n) ==
    /\ SourceKey(source_name) \in DOMAIN source_data
    /\ source_data[SourceKey(source_name)] = RecordsOf(source_name, n)

ErrorsAbout(source_name) ==
    {i \in 1..Len(processing_errors) : processing_errors[i][2] = source_name}

\* the selected providers the loop reaches with a non-empty query
Invoked == IF query = "" THEN {} ELSE DOMAIN providers

\* C11 (as stated): when the fetch function of provider A raises and that of
\* provider B returns records, the grouped map holds B's records and the
\* error list has exactly one entry about A.
C11_Original_FailingProviderIsolated ==
    FetchLoopDone =>
        \A A \in Invoked, B \in Invoked :
            (A # B /\ providers[A].raises /\ ~providers[B].raises /\ providers[B].n >= 1)
            => /\ HoldsRecordsOf(B, providers[B].n)
               /\ Cardinality(ErrorsAbout(A)) = 1

\* C12 (as stated): when a provider's fetch function returns n >= 1 dicts and
\* nothing fails, the grouped map holds exactly those n records in order
\* under the provider's category and the error list is empty; when the probe
\* succeeds too there is one Stage A call per non-empty category, one Stage B
\* call, and the result is not degraded.
C12_Original_ProviderRecordsKept ==
    (FetchLoopDone /\ pc = "done") =>
        \A P \in Invoked :
            (/\ \A R \in Invoked : ~providers[R].raises
             /\ providers[P].n >= 1
             /\ \A i \in 1..Len(llm_calls) : ~llm_calls[i].failed)
            => /\ HoldsRecordsOf(P, providers[P].n)
               /\ processing_errors = <<>>
               /\ ProbeSucceeded =>
                    /\ \A k \in NonEmptyKeys(source_data) :
                          Cardinality(StageACallsFor(k)) = 1
                    /\ Cardinality(CallsOfStage("B")) = 1
                    /\ result.is_raw_data = FALSE

\* C13 (as stated): a provider whose fetch function raises and one that
\* returns an empty list both contribute no records; the run goes on, every
\* selected provider is still invoked, and the provider with zero results
\* records no error.
C13_Original_NoResultsTolerated ==
    FetchLoopDone =>
        \A P \in Invoked :
            (providers[P].raises \/ providers[P].n = 0)
            => /\ \/ SourceKey(P) \notin DOMAIN source_data
                  \/ source_data[SourceKey(P)] = <<>>
               /\ fetch_calls = Cardinality(Invoked)
               /\ ~providers[P].raises => ErrorsAbout(P) = {}

(* ------------------------ the result of a run -------------------------- *)
PcValues == {"idle", "called", "fetch", "synthesis", "stageA", "stageB", "done"}

IsEmptyOutcome(r) == r.is_raw_data /\ r.report = EmptyReportText

IsDegradedOutcome(r) ==
    r.is_raw_data /\ HasPart(r.report, "note", "", "LLM processing is not available")

IsSynthesizedOutcome(r) == ~r.is_raw_data /\ PartsTagged(r.report, "synthesis") # {}

ExactlyOneOutcome(r) ==
    Cardinality({o \in {"empty", "degraded", "synthesized"} :
                    \/ o = "empty" /\ IsEmptyOutcome(r)
                    \/ o = "degraded" /\ IsDegradedOutcome(r)
                    \/ o = "synthesized" /\ IsSynthesizedOutcome(r)}) = 1

\* C14: whatever the providers, the index and the LLM calls do, a run of
\* conduct_research never leaves through an exception, always reaches its
\* return, and returns a dict of report, source_data and is_raw_data that is
\* exactly one of the Empty, Degraded and Synthesized outcomes.
C14_ResearchAlwaysReturns ==
    /\ [](pc \in PcValues)
    /\ []((pc = "done" /\ mode = "research") =>
            /\ DOMAIN result = {"report", "source_data", "is_raw_data"}
            /\ ExactlyOneOutcome(result))
    /\ (pc = "fetch") ~> (pc = "done")

C14_Witness ==
    /\ pc = "done"
    /\ mode = "research"
    /\ processing_errors # <<>>
    /\ vector_store.exists
    /\ index_queries = 1
    /\ IsDegradedOutcome(result)

(* ------------------------- the embedding index ------------------------- *)
NumDocs(store) == GetStoreStatus(store).num_docs

IsPrefix(s, t) == Len(s) <= Len(t) /\ \A i \in 1..Len(s) : t[i] = s[i]

\* a search of the store that finds every chunk of the list
Retrievable(store, chunks) ==
    \E found \in SimilarityResults(store, Len(store.docs)) :
        \A i \in 1..Len(chunks) : \E j \in 1..Len(found) : found[j] = chunks[i]

AppendDone == index_op.op = "add" /\ index_op.n >= 1

BuildDone == index_op.op = "init"

\* C16 (as stated): init_store_from_documents with a non-empty list discards
\* the prior index and leaves an index of exactly those chunks (initialized,
\* count = length); with an empty list it is a no-op that leaves the index
\* absent, with status not initialized and count 0.
C16_Original_BuildPostcondition ==
    BuildDone =>
        /\ index_op.n >= 1 =>
             /\ vector_store.exists
             /\ vector_store.docs = Batch(index_op.n)
             /\ GetStoreStatus(vector_store) =
                  [status |-> "Initialized", num_docs |-> index_op.n]
        /\ index_op.n = 0 =>
             /\ vector_store = index_op.before
             /\ ~vector_store.exists
             /\ GetStoreStatus(vector_store) = [status |-> "Not initialized", num_docs |-> 0]

\* C16 (amended): init_store_from_documents with a non-empty list discards
\* the prior index and, when FAISS.from_documents succeeds, leaves an index
\* of exactly those chunks (initialized, count = length); when it raises, and
\* when the list is empty, it leaves the index absent (status not initialized,
\* count 0), discarding an index that existed before.
C16_BuildPostcondition ==
    BuildDone =>
        /\ (index_op.n >= 1 /\ index_op.outcome = "ok") =>
             /\ vector_store = [exists |-> TRUE, docs |-> Batch(index_op.n),
                                vectors |-> index_op.n]
             /\ GetStoreStatus(vector_store) =
                  [status |-> "Initialized", num_docs |-> index_op.n]
        /\ (index_op.n = 0 \/ index_op.outcome # "ok") =>
             /\ vector_store = NoStore
             /\ GetStoreStatus(vector_store) = [status |-> "Not initialized", num_docs |-> 0]

C16_Witness ==
    /\ BuildDone
    /\ index_op.before.exists
    /\ NumDocs(index_op.before) = 2
    /\ index_op.n = 1
    /\ vector_store.exists
    /\ vector_store.docs = Batch(1)

SearchDone == index_op.op = "search"

C18_OnlyBuildAndAppendMutate ==
    [][/\ vector_store' # vector_store => (pc = "idle" /\ index_op'.op \in {"init", "add"})
       /\ index_op'.op \in {"search", "status"} => vector_store' = vector_store
       /\ mode' \in {"research", "regenerate"} => vector_store' = vector_store]_vars

C18_Witness ==
    /\ SearchDone
    /\ index_op.out # <<>>
    /\ vector_store = index_op.before
    /\ vector_store.exists

\* C19 (as stated): after every sequence of build, append and query calls,
\* failing ones included, the index is fully absent or it holds as many
\* vectors as chunks.
C19_Original_IndexConsistent ==
    IF vector_store.exists
    THEN vector_store.vectors = Len(vector_store.docs)
    ELSE vector_store = NoStore

(* ------------------------- the index in the shell ---------------------- *)
\* a Submit Documents step that uploads a file with text while another file
\* with text is listed as uploaded
LaterUpload ==
    /\ \E f \in session.uploaded_pdfs : ~PdfText(f).blank
    /\ \E f \in session'.uploaded_pdfs \ session.uploaded_pdfs : ~PdfText(f).blank

\* C20 (as stated): no handler of the shell (submit documents, start research
\* with its run, regenerate, clear all documents, logout, login, reset)
\* discards or replaces the index the session holds or lowers its chunk
\* count, and a later upload appends to the existing index.
C20_Original_ShellKeepsIndex ==
    [][/\ HasIndexedStore =>
            /\ HasIndexedStore'
            /\ IsPrefix(vector_store.docs, vector_store'.docs)
            /\ NumDocs(vector_store') >= NumDocs(vector_store)
       /\ LaterUpload =>
            /\ HasIndexedStore
            /\ HasIndexedStore'
            /\ IsPrefix(vector_store.docs, vector_store'.docs)
            /\ NumDocs(vector_store') > NumDocs(vector_store)]_vars

(* ------------------------------- C21 ----------------------------------- *)
\* the document records conduct_research has emitted
PdfSources == DictGet(source_data, "pdf_sources", <<>>)

\* the index search of this run was given a non-empty set of allowed labels
FilterSupplied == type_filter.kind # "none" /\ type_filter.types # {}

\* C21 (as stated): whenever the document category is selected and a
\* non-empty set of allowed category labels is supplied, as a dict or as the
\* list the shell passes, every document record emitted carries a label of
\* the allowed set.
C21_Original_CategoryFilter ==
    (mode = "research" /\ SOURCE_PDF \in selected_data_sources /\ FilterSupplied)
        => \A i \in 1..Len(PdfSources) : PdfSources[i].pdf_type \in type_filter.types

(* ------------------------------- C22 ----------------------------------- *)
\* process_pdf has just returned index_op.out for the text index_op.before
ProcessPdfDone == pc = "called" /\ index_op.op = "process_pdf"

\* C22: the i-th chunk process_pdf returns has chunk_number i and
\* total_chunks equal to the length of the list, all chunks carry the name
\* of the document, and the list is empty exactly when the extracted text is
\* empty or blank.
C22_ChunkOrdinals ==
    ProcessPdfDone =>
       /\ \A i \in 1..Len(index_op.out) :
            /\ index_op.out[i].metadata.chunk_number = i
            /\ index_op.out[i].metadata.total_chunks = Len(index_op.out)
            /\ index_op.out[i].metadata.source = index_op.q
       /\ index_op.out = <<>> <=> index_op.before.blank

\* several chunks of one document, and a blank text that gave none
C22_Witness ==
    /\ ProcessPdfDone
    /\ Len(index_op.out) = 2
    /\ ~index_op.before.blank

C22_WitnessBlank ==
    /\ ProcessPdfDone
    /\ index_op.out = <<>>
    /\ index_op.before.blank
    /\ index_op.before.len > 0

(* ------------------------------- C23 ----------------------------------- *)
\* the Regenerate Insights handler of the shell has its dict
ShellRegenerated == pc = "done" /\ mode = "shell_regenerate"

\* the calls _perform_synthesis makes for sd when the probe succeeds: the
\* probe, one Stage A call per non-empty category, one Stage B call
StagedCalls(sd) ==
    /\ Len(llm_calls) = 2 + Cardinality(NonEmptyKeys(sd))
    /\ llm_calls[1].stage = "probe"
    /\ \A k \in NonEmptyKeys(sd) : Cardinality(StageACallsFor(k)) = 1
    /\ llm_calls[Len(llm_calls)].stage = "B"

SubSeqAt(s, I) ==
    [j \in 1..Cardinality(I) |-> s[CHOOSE i \in I : Cardinality({x \in I : x < i}) = j - 1]]

\* the records of the listed category ShellKeys[t] at the selected positions
SelectedRecords(sd, t, filtered_sources) ==
    LET range == FlatRange(sd, t)
        offset == IF range = {} THEN 0 ELSE (CHOOSE i \in range : \A x \in range : i <= x) - 1
    IN SubSeqAt(DictGet(sd, ShellKeys[t], <<>>),
                {i - offset : i \in filtered_sources \cap range})

SubmitsText == \E f \in session'.uploaded_pdfs \ session.uploaded_pdfs : ~PdfText(f).blank

\* C25 (as stated): after Submit Documents on a document whose text yields
\* at least one chunk the session's index is initialized and holds the
\* chunks of the document on top of those it held, so that a research run
\* with the document category selected is allowed to start.
C25_Original_SubmitBuildsIndex ==
    [][SubmitsText =>
         /\ HasIndexedStore'
         /\ index_op'.op \in {"init", "add"}
         /\ index_op'.n >= 1
         /\ NumDocs(vector_store') = NumDocs(vector_store) + index_op'.n]_vars

(* ------------------------------- C26 ----------------------------------- *)
\* a run of _perform_synthesis that went through both stages has returned
SynthesizedRun == pc = "done" /\ mode \in {"research", "regenerate"} /\ ~result.is_raw_data

\* C26: the probe is the first call of a run and precedes every Stage A
\* call, every Stage A call precedes the Stage B call, and a Synthesized run
\* has made exactly 2 + n calls for its n non-empty categories, the last one
\* the only Stage B call, with a prompt made of the Stage A summaries.
C26_LLMCallOrdering ==
    /\ \A i \in 1..Len(llm_calls) :
         /\ llm_calls[i].stage = "probe" <=> i = 1
         /\ llm_calls[i].stage = "B" => (i = Len(llm_calls) /\ pc = "done")
    /\ SynthesizedRun =>
         LET last == llm_calls[Len(llm_calls)]
         IN /\ Len(llm_calls) = 2 + Cardinality(NonEmptyKeys(source_data))
            /\ \A i \in 2..(Len(llm_calls) - 1) : llm_calls[i].stage = "A"
            /\ last.stage = "B"
            /\ DOMAIN last.prompt.entries = NonEmptyKeys(source_data)
            /\ \A k \in DOMAIN last.prompt.entries :
                 \E i \in StageACallsFor(k) :
                    last.prompt.entries[k].summary
                      = StageASummary(k, llm_calls[i].response)

\* a Synthesized run over two categories: four calls
C26_Witness ==
    /\ SynthesizedRun
    /\ Cardinality(NonEmptyKeys(source_data)) = 2
    /\ Len(llm_calls) = 4

(* ------------------------------- C27 ----------------------------------- *)
\* the positions of progress that hold a message of kind
MessagesOf(kind) == {i \in 1..Len(progress) : progress[i].kind = kind}

\* the place of a provider in the registry
RegistryIndex(source_name) ==
    CHOOSE i \in 1..Len(AVAILABLE_SOURCES) : AVAILABLE_SOURCES[i] = source_name

\* the providers conduct_research has to fetch from in this run
SelectedProviders == selected_data_sources \cap Fetchable

\* the run is sequential when every provider ends with a message of
\* completions before the next one starts
SequentialWith(completions) ==
    mode = "research" =>
       /\ \A i \in MessagesOf("searching"), j \in MessagesOf("fetching") : i < j
       /\ \A i \in MessagesOf("fetching") :
            /\ i < Len(progress)
            /\ progress[i + 1].source = progress[i].source
            /\ progress[i + 1].kind \in completions
            /\ \A j \in MessagesOf("fetching") :
                 i < j => RegistryIndex(progress[i].source) < RegistryIndex(progress[j].source)
       /\ pc = "fetch" => (llm_calls = <<>> /\ result = NoResult)
       /\ pc \in {"synthesis", "stageA", "stageB", "done"} =>
            \A source_name \in SelectedProviders :
               \E i \in MessagesOf("fetching") : progress[i].source = source_name

\* C27 (as stated): the index query comes first, then the selected providers
\* one at a time in registry order: the 'fetching' message of a provider is
\* followed by its own 'found', 'no results' or 'exception' message before
\* the next 'fetching' message, and every selected provider has completed
\* before the first step of the synthesis.
C27_Original_SequentialFanOut == SequentialWith({"found", "no results", "exception"})

\* C27 (amended): as above, where a provider whose fetch is skipped because
\* the query is empty completes with its 'skipping' message.
C27_SequentialFanOut ==
    SequentialWith(IF query = "" THEN {"skipping"} ELSE {"found", "no results", "exception"})

\* the index was searched and both providers were handled before synthesis
C27_Witness ==
    /\ mode = "research"
    /\ pc = "synthesis"
    /\ query # ""
    /\ MessagesOf("searching") # {}
    /\ Cardinality(MessagesOf("fetching")) = 2
    /\ Cardinality(MessagesOf("exception")) = 2

(* ------------------------------- C28 ----------------------------------- *)
\* C28 (as stated): every error string recorded while gathering is present
\* in the result conduct_research returns, whatever the terminal outcome,
\* the run in which every provider fails and no record is gathered included.
C28_Original_ErrorsReachResult ==
    (pc = "done" /\ mode = "research") =>
        \A e \in 1..Len(processing_errors) :
           HasPart(result.report, "error", "", processing_errors[e])

(* ------------------------------- C29 ----------------------------------- *)
\* the one initialisation attempt of the process has failed
ClientFailed == client \in {"no_endpoint", "init_failed"}

\* this step made a get_llm_response call
CallMade == Len(llm_calls') = Len(llm_calls) + 1

\* C29: the client is initialised at most once: after an attempt its state
\* never changes; once the attempt has failed, every get_llm_response call
\* returns an 'Error:' string, and every research or regeneration run with
\* at least one record that returns ends Degraded.
C29_ClientInitialisedOnce ==
    [][/\ client # "uninit" => client' = client
       /\ ClientFailed =>
            /\ CallMade => StartsWith(llm_calls'[Len(llm_calls')].response, "Error:")
            /\ (pc # "done" /\ pc' = "done" /\ RecordCount(source_data') > 0) =>
                 (IsDegradedOutcome(result') /\ Len(llm_calls') = 1)]_vars

\* a run that began after the attempt had failed in an earlier run has ended
\* Degraded
C29_Witness ==
    /\ pc = "done"
    /\ ClientFailed
    /\ RecordCount(source_data) > 0
    /\ IsDegradedOutcome(result)
    /\ llm_calls[1].response = <<"Error:", "Azure OpenAI", "client not available.">>
                               \o ClientErrorText(client)

(* ------------------------------- C30 ----------------------------------- *)
\* a research or regeneration run of the shell is executing
ShellRunExecuting == pc # "idle" /\ mode \in {"research", "shell_regenerate"}

\* the Start Research button is drawn with disabled = processing
StartButtonEnabled == ~session.processing

\* C30: the processing flag of the shell is true only while a research or
\* regeneration run is executing; whenever the shell is between handlers,
\* after a run that returned or raised, the flag is false and the Start
\* Research button is enabled.
C30_ProcessingOnlyDuringRun ==
    /\ session.processing => ShellRunExecuting
    /\ Idle => StartButtonEnabled

\* a research run has raised: the critical error is shown and the button is
\* enabled again
C30_Witness ==
    /\ Idle
    /\ session.results = <<Part("message", "", "An unexpected critical error occurred")>>
    /\ StartButtonEnabled

\* while a run executes the flag is set
C30_WitnessRunning == ShellRunExecuting /\ session.processing

====
